---- MODULE Spec2Model ----
(***************************************************************************)
(* kqlalchemy: a SQLAlchemy dialect for Azure Data Explorer (Kusto) over   *)
(* ODBC.  The model covers                                                 *)
(*   - the token attribute buffer (_encode_token, get_token),              *)
(*   - the connection string built by get_engine, the do_connect listeners *)
(*     (provide_token) and _parse_connection_str,                          *)
(*   - the dialect objects (KQLDialect of kql_dialect.py and of base.py),  *)
(*     their do_connect listeners and their reflection hooks,              *)
(*   - column reflection (get_columns, _get_columns).                      *)
(*                                                                         *)
(* Python strings that are searched or split are sequences of one-         *)
(* character strings; a token, which is only ever encoded, is a sequence   *)
(* of Unicode code points; bytes are sequences of naturals below 256.      *)
(* A Python value that may be None is an option: None is the empty        *)
(* sequence and a value v is <<v>> (Some(v)).                              *)
(***************************************************************************)
EXTENDS Integers, Sequences, FiniteSets, TLC

VARIABLES
    engines,        \* engine id -> the engine get_engine returned, or NoEngine
    listeners,      \* the do_connect listeners registered on the Engine class, in order
    _server,        \* engine id -> KQLDialect._server of the engine's dialect
    _database,      \* engine id -> KQLDialect._database
    _kusto_client,  \* engine id -> KQLDialect._kusto_client
    lastConnect,    \* the most recent do_connect event: its engine, its cargs[0], its listeners
    connections,    \* the engines that hold an open ODBC connection
    lastEvent,      \* the outcome of the most recent event (a connect or a hook invocation)
    token,          \* the token string under encoding
    token_struct,   \* the attribute buffer built from it
    conn_args,      \* the (server, database) handed to get_engine
    parsed,         \* what _parse_connection_str returned for them
    rows,           \* the rows an external system answered for a table
    cols            \* the column descriptors reflected from them

vars == <<engines, listeners, _server, _database, _kusto_client, lastConnect,
          connections, lastEvent, token, token_struct, conn_args, parsed, rows, cols>>

None == <<>>

Some(v) == <<v>>

(***************************************************************************)
(* Bounds of the model.                                                    *)
(***************************************************************************)
MaxTokenLen == 3
MaxChunks == 2
MaxRows == 2
MaxEngines == 2

(***************************************************************************)
(* Strings.                                                                *)
(***************************************************************************)
RECURSIVE Concat(_)
Concat(ss) == IF ss = <<>> THEN <<>> ELSE Head(ss) \o Concat(Tail(ss))

StartsWith(s, p) == Len(s) >= Len(p) /\ SubSeq(s, 1, Len(p)) = p

Contains(s, p) == \E i \in 1..(Len(s) - Len(p) + 1) : SubSeq(s, i, i + Len(p) - 1) = p

\* str.find(p, from): the first index at or after from where p occurs, 0 if none.
FindFrom(s, p, from) ==
    LET hits == {i \in from..(Len(s) - Len(p) + 1) :
                    s[i] = p[1] /\ SubSeq(s, i, i + Len(p) - 1) = p}
    IN IF hits = {} THEN 0 ELSE CHOOSE i \in hits : \A j \in hits : i <= j

\* str.replace(old, ""): every non-overlapping occurrence, scanning from the left.
RECURSIVE ReplaceFrom(_, _, _)
ReplaceFrom(s, old, from) ==
    LET i == FindFrom(s, old, from)
    IN IF i = 0 THEN SubSeq(s, from, Len(s))
       ELSE SubSeq(s, from, i - 1) \o ReplaceFrom(s, old, i + Len(old))

str_replace(s, old) == ReplaceFrom(s, old, 1)

\* str.split(sep): the parts between the non-overlapping occurrences of sep.
RECURSIVE SplitFrom(_, _, _)
SplitFrom(s, sep, from) ==
    LET i == FindFrom(s, sep, from)
    IN IF i = 0 THEN << SubSeq(s, from, Len(s)) >>
       ELSE << SubSeq(s, from, i - 1) >> \o SplitFrom(s, sep, i + Len(sep))

str_split(s, sep) == SplitFrom(s, sep, 1)

HexDigits ==
    <<"0", "1", "2", "3", "4", "5", "6", "7", "8", "9",
      "a", "b", "c", "d", "e", "f", "A", "B", "C", "D", "E", "F">>

IsHex(c) == \E i \in 1..Len(HexDigits) : HexDigits[i] = c

HexVal(c) ==
    LET i == CHOOSE k \in 1..Len(HexDigits) : HexDigits[k] = c
    IN IF i <= 16 THEN i - 1 ELSE i - 7

\* The 128 ASCII characters by code; the control characters and the
\* backquote are named xNN.
Ascii ==
    <<"x00", "x01", "x02", "x03", "x04", "x05", "x06", "x07", "x08", "x09", "x0A",
      "x0B", "x0C", "x0D", "x0E", "x0F", "x10", "x11", "x12", "x13", "x14", "x15",
      "x16", "x17", "x18", "x19", "x1A", "x1B", "x1C", "x1D", "x1E", "x1F", " ", "!",
      "\"", "#", "$", "%", "&", "'", "(", ")", "*", "+", ",", "-", ".", "/", "0", "1",
      "2", "3", "4", "5", "6", "7", "8", "9", ":", ";", "<", "=", ">", "?", "@", "A",
      "B", "C", "D", "E", "F", "G", "H", "I", "J", "K", "L", "M", "N", "O", "P", "Q",
      "R", "S", "T", "U", "V", "W", "X", "Y", "Z", "[", "\\", "]", "^", "_", "x60", "a",
      "b", "c", "d", "e", "f", "g", "h", "i", "j", "k", "l", "m", "n", "o", "p", "q",
      "r", "s", "t", "u", "v", "w", "x", "y", "z", "{", "|", "}", "~", "x7F">>

\* A decoded byte as text (utf-8, errors="replace").  A byte of 0x80 or more
\* that does not belong to a multi-byte sequence decodes to U+FFFD; the
\* inputs of the model never put a lead byte before a continuation byte.
DecodeByte(b) == IF b < 128 THEN Ascii[b + 1] ELSE "uFFFD"

\* urllib.parse.unquote: "%" followed by two hex digits becomes the byte they
\* name; any other "%" is kept.
IsEscapeAt(s, i) ==
    s[i] = "%" /\ i + 2 <= Len(s) /\ IsHex(s[i + 1]) /\ IsHex(s[i + 2])

RECURSIVE UnquoteFrom(_, _)
UnquoteFrom(s, from) ==
    LET hits == {i \in from..Len(s) : IsEscapeAt(s, i)}
    IN IF hits = {} THEN SubSeq(s, from, Len(s))
       ELSE LET i == CHOOSE k \in hits : \A j \in hits : k <= j
            IN SubSeq(s, from, i - 1)
               \o <<DecodeByte(16 * HexVal(s[i + 1]) + HexVal(s[i + 2]))>>
               \o UnquoteFrom(s, i + 3)

unquote(s) == UnquoteFrom(s, 1)

(***************************************************************************)
(* The connection string.                                                  *)
(***************************************************************************)
DRIVER_PREFIX ==
    <<"D", "r", "i", "v", "e", "r", "=", "{", "O", "D", "B", "C", " ", "D", "r", "i",
      "v", "e", "r", " ", "1", "7", " ", "f", "o", "r", " ", "S", "Q", "L", " ", "S",
      "e", "r", "v", "e", "r", "}", ";", "S", "e", "r", "v", "e", "r", "=">>

SERVER_SUFFIX ==
    <<".", "k", "u", "s", "t", "o", ".", "w", "i", "n", "d", "o", "w", "s", ".", "n",
      "e", "t", ";", "D", "a", "t", "a", "b", "a", "s", "e", "=">>

TRUSTED_CONNECTION ==
    <<";", "T", "r", "u", "s", "t", "e", "d", "_", "C", "o", "n", "n", "e", "c", "t",
      "i", "o", "n", "=", "Y", "e", "s">>

DATABASE_KEY == <<";", "D", "a", "t", "a", "b", "a", "s", "e", "=">>

SERVER_KEY == <<";", "S", "e", "r", "v", "e", "r", "=">>

HTTPS == <<"h", "t", "t", "p", "s", ":", "/", "/">>

\* get_engine's conn_str for (server, database).
conn_str(server, database) == DRIVER_PREFIX \o server \o SERVER_SUFFIX \o database

\* Mutation of RemoveTrustedConnection: the parameter is left in place.
KeepTrustedConnection(cargs0) == cargs0

\* The first line of both provide_token listeners.
RemoveTrustedConnection(cargs0) == str_replace(cargs0, TRUSTED_CONNECTION)

\* _parse_connection_str: [ok, server, database]; an index out of range
\* (no ";Database=" or no ";Server=" in the string) is ok = FALSE.
_parse_connection_str(cs) ==
    LET url == unquote(cs)
        url_split_db == str_split(url, DATABASE_KEY)
    IN IF Len(url_split_db) < 2
       THEN [ok |-> FALSE, server |-> <<>>, database |-> <<>>]
       ELSE LET database == url_split_db[2]
                url_split_server == str_split(url_split_db[1], SERVER_KEY)
            IN IF Len(url_split_server) < 2
               THEN [ok |-> FALSE, server |-> <<>>, database |-> <<>>]
               ELSE [ok |-> TRUE,
                     server |-> HTTPS \o url_split_server[2],
                     database |-> database]

(***************************************************************************)
(* The token attribute buffer.                                             *)
(***************************************************************************)
SQL_COPT_SS_ACCESS_TOKEN == 1256

\* One code point in UTF-16-LE: two bytes, or a surrogate pair of four.
Utf16leUnit(u) == <<u % 256, u \div 256>>

Utf16leChar(c) ==
    IF c < 65536 THEN Utf16leUnit(c)
    ELSE Utf16leUnit(55296 + ((c - 65536) \div 1024))
         \o Utf16leUnit(56320 + ((c - 65536) % 1024))

\* str.encode("utf-16-le")
RECURSIVE utf_16_le(_)
utf_16_le(t) == IF t = <<>> THEN <<>> ELSE Utf16leChar(Head(t)) \o utf_16_le(Tail(t))

\* struct.pack("<I", n): a 32-bit unsigned integer, least significant byte first.
PackUInt32LE(n) ==
    <<n % 256, (n \div 256) % 256, (n \div 65536) % 256, (n \div 16777216) % 256>>

\* Mutation of struct_pack: the length packed most significant byte first (">I").
struct_pack_big_endian(n, raw) ==
    <<(n \div 16777216) % 256, (n \div 65536) % 256, (n \div 256) % 256, n % 256>> \o raw

\* struct.pack(f"<I{len(raw)}s", n, raw)
struct_pack(n, raw) == PackUInt32LE(n) \o raw

\* kql_dialect._encode_token
_encode_token(t) ==
    LET raw_token == utf_16_le(t)
    IN SQL_COPT_SS_ACCESS_TOKEN :> struct_pack(Len(raw_token), raw_token)

\* kqlalchemy.get_token, for a credential whose get_token(...).token is t
get_token(t) ==
    LET raw_token == utf_16_le(t)
    IN SQL_COPT_SS_ACCESS_TOKEN :> struct_pack(Len(raw_token), raw_token)

(***************************************************************************)
(* Column reflection.                                                      *)
(***************************************************************************)
\* MSDialect.ischema_names (KQLDialect.ischema_names = parent.ischema_names):
\* type name -> type class.
ischema_names ==
    <<  <<"int", "INTEGER">>, <<"bigint", "BIGINT">>, <<"smallint", "SMALLINT">>,
        <<"tinyint", "TINYINT">>, <<"varchar", "VARCHAR">>, <<"nvarchar", "NVARCHAR">>,
        <<"char", "CHAR">>, <<"nchar", "NCHAR">>, <<"text", "TEXT">>,
        <<"ntext", "NTEXT">>, <<"decimal", "DECIMAL">>, <<"numeric", "NUMERIC">>,
        <<"float", "FLOAT">>, <<"datetime", "DATETIME">>, <<"datetime2", "DATETIME2">>,
        <<"datetimeoffset", "DATETIMEOFFSET">>, <<"date", "DATE">>, <<"time", "TIME">>,
        <<"smalldatetime", "SMALLDATETIME">>, <<"binary", "BINARY">>,
        <<"varbinary", "VARBINARY">>, <<"bit", "BIT">>, <<"real", "REAL">>,
        <<"image", "IMAGE">>, <<"xml", "XML">>, <<"timestamp", "TIMESTAMP">>,
        <<"money", "MONEY">>, <<"smallmoney", "SMALLMONEY">>,
        <<"uniqueidentifier", "UNIQUEIDENTIFIER">>, <<"sql_variant", "SQL_VARIANT">> >>

\* Mutation of type_map: R64 listed as float.
type_map_float ==
    <<  <<"DateTime", "datetime2">>, <<"I32", "int">>, <<"I64", "bigint">>,
        <<"StringBuffer", "nvarchar">>, <<"R64", "float">> >>

\* _get_columns' type_map: engine type name -> relational type name.
type_map ==
    <<  <<"DateTime", "datetime2">>, <<"I32", "int">>, <<"I64", "bigint">>,
        <<"StringBuffer", "nvarchar">>, <<"R64", "real">> >>

\* Mutation of dict_get: a default class instead of None for a missing key.
dict_get_default(d, key) ==
    IF key # None /\ \E i \in 1..Len(d) : d[i][1] = key[1]
    THEN Some(d[CHOOSE i \in 1..Len(d) : d[i][1] = key[1]][2])
    ELSE Some("NullType")

\* dict.get(key) with key an option (None is a key no table holds): the
\* value as an option.
dict_get(d, key) ==
    IF key # None /\ \E i \in 1..Len(d) : d[i][1] = key[1]
    THEN Some(d[CHOOSE i \in 1..Len(d) : d[i][1] = key[1]][2])
    ELSE None

HasKey(d, key) == key # None /\ \E i \in 1..Len(d) : d[i][1] = key[1]

\* The type classes of the mssql dialect under their old names.
MSNVarchar == "NVARCHAR"

\* The classes of the tuple in "if coltype in (MSString, ..., sqltypes.LargeBinary)".
LengthTypes ==
    {"VARCHAR", "CHAR", "NVARCHAR", "NCHAR", "TEXT", "NTEXT", "BINARY", "VARBINARY",
     "LargeBinary"}

\* issubclass(coltype, sqltypes.Numeric) and issubclass(coltype, sqltypes.Float)
NumericTypes == {"DECIMAL", "NUMERIC", "FLOAT", "REAL"}

FloatTypes == {"FLOAT", "REAL"}

COLLATION == "SQL_Latin1_General_CP1_CS_AS"

\* sqltypes.NULLTYPE: an instance built with no keyword.
NULLTYPE ==
    [cls |-> "NullType", keywords |-> {}, length |-> None, collation |-> None,
     precision |-> None, scale |-> None]

\* coltype(**kwargs): the instance is its class and the keywords it was built with.
Instance(coltype, kwargs) ==
    [cls |-> coltype, keywords |-> kwargs.keywords, length |-> kwargs.length,
     collation |-> kwargs.collation, precision |-> kwargs.precision,
     scale |-> kwargs.scale]

\* The body of the loop from "kwargs = {}" to cdict, the same text in
\* get_columns and in _get_columns: the descriptor and the warnings of one row.
\* type_ and coltype are options; a warning is the pair util.warn formats.
column_of(name, type_, coltype, collation, numericprec, numericscale) ==
    LET k0 == [keywords |-> {}, length |-> None, collation |-> None,
               precision |-> None, scale |-> None]
        k1 == IF coltype # None /\ coltype[1] \in LengthTypes
              THEN IF collation # None
                   THEN [k0 EXCEPT !.keywords = {"length", "collation"},
                                   !.collation = collation]
                   ELSE [k0 EXCEPT !.keywords = {"length"}]
              ELSE k0
        k2 == IF coltype # None /\ coltype[1] \in NumericTypes
              THEN IF coltype[1] \notin FloatTypes
                   THEN [k1 EXCEPT !.keywords = @ \cup {"precision", "scale"},
                                   !.precision = numericprec, !.scale = numericscale]
                   ELSE [k1 EXCEPT !.keywords = @ \cup {"precision"},
                                   !.precision = numericprec]
              ELSE k1
    IN [cdict |-> [name |-> name,
                   type |-> IF coltype = None THEN NULLTYPE
                            ELSE Instance(coltype[1], k2),
                   nullable |-> TRUE,
                   default |-> None,
                   autoincrement |-> FALSE],
        warnings |-> IF coltype = None
                     THEN << [type |-> type_, column |-> name] >>
                     ELSE <<>>]

\* type_ == MSNVarchar in get_columns: type_ is the str read from
\* information_schema.columns.data_type and MSNVarchar is a class, and a str
\* never equals a class.
StrEqClass(type_, cls) == FALSE

\* One row of get_columns.
get_columns_row(row) ==
    LET name == row.column_name
        type_ == row.data_type
        numericprec == row.numeric_precision
        numericscale == row.numeric_scale
        collation == IF StrEqClass(type_, MSNVarchar) THEN Some(COLLATION) ELSE None
        coltype == dict_get(ischema_names, type_)
    IN column_of(name, type_, coltype, collation, numericprec, numericscale)

\* One row of _get_columns.
_get_columns_row(row) ==
    LET name == row.AttributeName
        type_ == dict_get(type_map, Some(row.AttributeType))
        coltype == dict_get(ischema_names, type_)
        collation == IF type_ = Some("nvarchar") THEN Some(COLLATION) ELSE None
        numericprec == IF type_ = Some("real") THEN Some(53) ELSE None
        numericscale == None
    IN column_of(name, type_, coltype, collation, numericprec, numericscale)

\* Mutation of get_columns_loop: each descriptor is put in front of the list.
RECURSIVE get_columns_loop_prepend(_)
get_columns_loop_prepend(rs) ==
    IF rs = <<>> THEN [cols |-> <<>>, warnings |-> <<>>]
    ELSE LET c == get_columns_row(Head(rs))
             rest == get_columns_loop_prepend(Tail(rs))
         IN [cols |-> rest.cols \o <<c.cdict>>, warnings |-> c.warnings \o rest.warnings]

\* The loop of get_columns over the rows of the information-schema query:
\* [cols, warnings].
RECURSIVE get_columns_loop(_)
get_columns_loop(rs) ==
    IF rs = <<>> THEN [cols |-> <<>>, warnings |-> <<>>]
    ELSE LET c == get_columns_row(Head(rs))
             rest == get_columns_loop(Tail(rs))
         IN [cols |-> <<c.cdict>> \o rest.cols, warnings |-> c.warnings \o rest.warnings]

\* The loop of _get_columns over the rows of ".show table <tablename>".
RECURSIVE _get_columns_loop(_)
_get_columns_loop(rs) ==
    IF rs = <<>> THEN [cols |-> <<>>, warnings |-> <<>>]
    ELSE LET c == _get_columns_row(Head(rs))
             rest == _get_columns_loop(Tail(rs))
         IN [cols |-> <<c.cdict>> \o rest.cols, warnings |-> c.warnings \o rest.warnings]

(***************************************************************************)
(* Engines, dialects and the do_connect event.                             *)
(***************************************************************************)
EngineIds == 1..MaxEngines

\* What each get_engine call is given: engine e is built for its own cluster
\* and database, with its own credential (the same object is the dialect's
\* azure_credential); the credential is the token its get_token returns.
Digit(e) == Ascii[49 + e]

ServerOf(e) == <<"c", Digit(e)>>

DatabaseOf(e) == <<"d", "b", Digit(e)>>

TokenOf(e) == <<64 + e, 8364>>

NoEngine == [created |-> FALSE, dialect |-> "none", variant |-> "none"]

\* The instance attributes a dialect object has: KQLDialect.__init__ of
\* kql_dialect.py sets three, KQLDialect of base.py sets none.
DialectAttributes(dialect) ==
    IF dialect = "kql" THEN {"_kusto_client", "_server", "_database"} ELSE {}

\* _get_token(azure_credential): the credential's token.
_get_token(azure_credential) == azure_credential

\* Mutation of KQLDialect_provide_token: the client is built once and kept.
KQLDialect_provide_token_once(d, st) ==
    LET cargs0 == RemoveTrustedConnection(st.cargs0)
        tok == _get_token(TokenOf(d))
        p == _parse_connection_str(cargs0)
    IN IF ~p.ok
       THEN [st EXCEPT !.cargs0 = cargs0, !.error = TRUE]
       ELSE IF st.client[d] # None
       THEN [st EXCEPT !.cargs0 = cargs0, !.attrs_before = Some(_encode_token(tok))]
       ELSE [st EXCEPT !.cargs0 = cargs0,
                       !.server[d] = Some(p.server),
                       !.database[d] = Some(p.database),
                       !.client[d] = Some([url |-> p.server, token |-> tok]),
                       !.attrs_before = Some(_encode_token(tok))]

\* provide_token of KQLDialect.__init__, the listener dialect d registered on
\* the Engine class, run on the state st of a do_connect event.
KQLDialect_provide_token(d, st) ==
    LET cargs0 == RemoveTrustedConnection(st.cargs0)
        tok == _get_token(TokenOf(d))
        p == _parse_connection_str(cargs0)
    IN IF ~p.ok
       THEN [st EXCEPT !.cargs0 = cargs0, !.error = TRUE]
       ELSE [st EXCEPT !.cargs0 = cargs0,
                       !.server[d] = Some(p.server),
                       !.database[d] = Some(p.database),
                       !.client[d] = Some([url |-> p.server, token |-> tok]),
                       !.attrs_before = Some(_encode_token(tok))]

\* provide_token of kqlalchemy.get_engine (__init__.py), registered on engine e.
package_provide_token(e, st) ==
    [st EXCEPT !.cargs0 = RemoveTrustedConnection(st.cargs0),
               !.attrs_before = Some(get_token(TokenOf(e)))]

\* provide_token of kql_dialect.get_engine, registered on engine e: it reads
\* dialect.token, an attribute no dialect class defines (AttributeError).
module_provide_token(e, st) ==
    LET cargs0 == RemoveTrustedConnection(st.cargs0)
    IN IF "token" \in DialectAttributes(engines[e].dialect)
       THEN [st EXCEPT !.cargs0 = cargs0,
                       !.attrs_before = Some(_encode_token(TokenOf(e)))]
       ELSE [st EXCEPT !.cargs0 = cargs0, !.error = TRUE]

\* The listeners of a do_connect event in the order the event runs them: the
\* ones registered on the Engine class in registration order, then the
\* engine's own.  A listener that raises ends the event.
RECURSIVE RunClassListeners(_, _)
RunClassListeners(ls, st) ==
    IF ls = <<>> \/ st.error THEN st
    ELSE RunClassListeners(Tail(ls), KQLDialect_provide_token(Head(ls), st))

do_connect(e, cargs0) ==
    LET st0 == [cargs0 |-> cargs0, attrs_before |-> None, server |-> _server,
                database |-> _database, client |-> _kusto_client, error |-> FALSE]
        st1 == RunClassListeners(listeners, st0)
    IN IF st1.error THEN st1
       ELSE IF engines[e].variant = "package" THEN package_provide_token(e, st1)
       ELSE module_provide_token(e, st1)

\* get_engine(server, database, azure_credentials): create_engine builds the
\* dialect (KQLDialect.__init__ for the dialect of kql_dialect.py) and the
\* engine's own listener is registered.  Engines are created in id order.
get_engine(e, dialect, variant) ==
    /\ ~engines[e].created
    /\ IF e = 1 THEN TRUE ELSE engines[e - 1].created
    /\ engines' = [engines EXCEPT ![e] =
                       [created |-> TRUE, dialect |-> dialect, variant |-> variant]]
    /\ _kusto_client' = [_kusto_client EXCEPT ![e] = None]
    /\ _server' = [_server EXCEPT ![e] = None]
    /\ _database' = [_database EXCEPT ![e] = None]
    /\ listeners' = IF dialect = "kql" THEN Append(listeners, e) ELSE listeners
    /\ lastEvent' = [kind |-> "get_engine", engine |-> e]
    /\ UNCHANGED <<lastConnect, connections, token, token_struct, conn_args, parsed,
                   rows, cols>>

\* cargs[0] as the pyodbc connector hands it to the event: the odbc_connect
\* string of the engine's URL, with or without ";Trusted_Connection=Yes".
create_connect_args(e, trusted) ==
    IF trusted THEN conn_str(ServerOf(e), DatabaseOf(e)) \o TRUSTED_CONNECTION
    ELSE conn_str(ServerOf(e), DatabaseOf(e))

\* A connection is opened on engine e: the do_connect event runs and, unless a
\* listener raised, the ODBC connection is made.
Connect(e) ==
    /\ engines[e].created
    /\ \E trusted \in BOOLEAN :
         \E st \in {do_connect(e, create_connect_args(e, trusted))} :
            /\ _server' = st.server
            /\ _database' = st.database
            /\ _kusto_client' = st.client
            /\ lastConnect' = Some([engine |-> e, trusted |-> trusted,
                                    listeners |-> listeners])
            /\ connections' = IF st.error THEN connections ELSE connections \cup {e}
            /\ lastEvent' = [kind |-> "connect", engine |-> e, error |-> st.error,
                             cargs0 |-> st.cargs0, attrs_before |-> st.attrs_before]
    /\ UNCHANGED <<engines, listeners, token, token_struct, conn_args, parsed, rows, cols>>

(***************************************************************************)
(* The dialect hooks.                                                      *)
(***************************************************************************)
\* The inputs of a hook invocation: the database part of the schema argument
\* (None unless the schema is "database.owner"), the database the connection
\* is in, and the answers of the external systems.
SwitchInputs ==
    {[dbname |-> None, current_db |-> "master"],
     [dbname |-> Some("otherdb"), current_db |-> "otherdb"],
     [dbname |-> Some("otherdb"), current_db |-> "master"]}

ColumnNames == {"c1", "c2"}

Precisions == {<<None, None>>, <<Some(18), Some(2)>>}

IschemaTypes == {"nvarchar", "varchar", "int", "real", "numeric", "geography"}

IschemaRowSet ==
    {[column_name |-> n, data_type |-> Some(t), numeric_precision |-> p[1],
      numeric_scale |-> p[2]] : n \in ColumnNames, t \in IschemaTypes, p \in Precisions}

KustoTypes == {"DateTime", "I32", "I64", "StringBuffer", "R64", "Guid", "int"}

KustoRowSet == [AttributeName : ColumnNames, AttributeType : KustoTypes]

SeqsUpTo(S, n) == UNION {[1..k -> S] : k \in 0..n}

IschemaAnswers ==
    {<<>>,
     << [column_name |-> "c1", data_type |-> Some("numeric"),
         numeric_precision |-> Some(18), numeric_scale |-> Some(2)],
        [column_name |-> "c2", data_type |-> Some("geography"),
         numeric_precision |-> None, numeric_scale |-> None] >>}

KustoAnswers ==
    {<<>>,
     << [AttributeName |-> "c1", AttributeType |-> "R64"],
        [AttributeName |-> "c2", AttributeType |-> "Guid"] >>}

TableAnswers == {<<>>, << <<"t1">>, <<"t2">> >>}

\* _switch_db of the _db_plus_owner decorators: the ODBC statements it issues
\* around the decorated function ("select db_name()", and a "use" before and
\* after when the connection is in another database).
_switch_db(dbname, current_db) ==
    IF dbname = None THEN 0
    ELSE IF current_db # dbname[1] THEN 3
    ELSE 1

\* The record of a hook invocation: the statements issued on the ODBC
\* connection (those of _switch_db apart), the management commands issued on
\* the Kusto client, whether it raised, the answer it was given and what it
\* returned.
Invocation(e, op, sw, odbc, kusto, error, answer, result, warnings) ==
    /\ lastEvent' = [kind |-> "call", engine |-> e, op |-> op, dbname |-> sw.dbname,
                     switch_db |-> _switch_db(sw.dbname, sw.current_db),
                     odbc |-> odbc, kusto |-> kusto, error |-> error,
                     answer |-> answer, result |-> result, warnings |-> warnings]
    /\ UNCHANGED <<engines, listeners, _server, _database, _kusto_client, lastConnect,
                   connections, token, token_struct, conn_args, parsed, rows, cols>>

\* A hook that is handed a Connection uses it when a statement is issued on it.
HasConnection(e, sw) == sw.dbname # None => e \in connections

NoSwitch == [dbname |-> None, current_db |-> "master"]

get_isolation_level(e) ==
    /\ engines[e].created
    /\ Invocation(e, "get_isolation_level", NoSwitch, 0, 0, FALSE, None,
                  Some("READ COMMITTED"), <<>>)

get_pk_constraint(e) ==
    /\ engines[e].created
    /\ \E sw \in SwitchInputs :
         /\ HasConnection(e, sw)
         /\ Invocation(e, "get_pk_constraint", sw, 0, 0, FALSE, None,
                       Some([constrained_columns |-> <<>>, name |-> None]), <<>>)

get_foreign_keys(e) ==
    /\ engines[e].created
    /\ \E sw \in SwitchInputs :
         /\ HasConnection(e, sw)
         /\ Invocation(e, "get_foreign_keys", sw, 0, 0, FALSE, None, Some({}), <<>>)

get_indexes(e) ==
    /\ engines[e].created
    /\ \E sw \in SwitchInputs :
         /\ HasConnection(e, sw)
         /\ Invocation(e, "get_indexes", sw, 0, 0, FALSE, None, Some({}), <<>>)

\* get_columns: one select on information_schema.columns over the connection.
get_columns(e) ==
    /\ engines[e].created
    /\ e \in connections
    /\ \E sw \in SwitchInputs, answer \in IschemaAnswers :
         LET r == get_columns_loop(answer)
         IN Invocation(e, "get_columns", sw, 1, 0, FALSE, Some(answer), Some(r.cols),
                       r.warnings)

\* Mutation of execute_mgmt: the information-schema select is issued as well.
execute_mgmt_and_select(e, op, sw, answer, result, warnings) ==
    IF _kusto_client[e] = None
    THEN Invocation(e, op, sw, 0, 0, TRUE, None, None, <<>>)
    ELSE Invocation(e, op, sw, 1, 1, FALSE, Some(answer), result, warnings)

\* A management command on self._kusto_client: with no client (None) the
\* attribute access raises before anything is sent.
execute_mgmt(e, op, sw, answer, result, warnings) ==
    IF _kusto_client[e] = None
    THEN Invocation(e, op, sw, 0, 0, TRUE, None, None, <<>>)
    ELSE Invocation(e, op, sw, 0, 1, FALSE, Some(answer), result, warnings)

\* _get_columns: ".show table <tablename>" on the Kusto client.
_get_columns(e) ==
    /\ engines[e].created
    /\ engines[e].dialect = "kql"
    /\ \E sw \in SwitchInputs, answer \in KustoAnswers :
         /\ HasConnection(e, sw)
         /\ LET r == _get_columns_loop(answer)
            IN execute_mgmt(e, "_get_columns", sw, answer, Some(r.cols), r.warnings)

\* get_table_names of kql_dialect.py: ".show tables | project TableName".
get_table_names(e) ==
    /\ engines[e].created
    /\ engines[e].dialect = "kql"
    /\ \E sw \in SwitchInputs, answer \in TableAnswers :
         /\ HasConnection(e, sw)
         /\ execute_mgmt(e, "get_table_names", sw, answer,
                         Some([i \in 1..Len(answer) |-> answer[i][1]]), <<>>)

\* has_table: of kql_dialect.py, ".show tables | where TableName == ..." on the
\* Kusto client; of base.py, one select on information_schema.tables.
has_table(e) ==
    /\ engines[e].created
    /\ \E sw \in SwitchInputs, answer \in TableAnswers :
         IF engines[e].dialect = "kql"
         THEN /\ HasConnection(e, sw)
              /\ execute_mgmt(e, "has_table", sw, answer, Some(Len(answer) > 0), <<>>)
         ELSE /\ e \in connections
              /\ Invocation(e, "has_table", sw, 1, 0, FALSE, Some(answer),
                            Some(Len(answer) > 0), <<>>)

(***************************************************************************)
(* Specifications.                                                         *)
(***************************************************************************)
NoDialects ==
    /\ engines = [e \in EngineIds |-> NoEngine]
    /\ listeners = <<>>
    /\ _server = [e \in EngineIds |-> None]
    /\ _database = [e \in EngineIds |-> None]
    /\ _kusto_client = [e \in EngineIds |-> None]
    /\ lastConnect = None
    /\ connections = {}
    /\ lastEvent = [kind |-> "none"]

NoToken == token = <<>> /\ token_struct = None

NoParse == conn_args = <<>> /\ parsed = None

NoColumns == rows = <<>> /\ cols = None

\* Engines are built and connected in any order, and the hooks that read the
\* Kusto client are invoked in between.
Init == NoDialects /\ NoToken /\ NoParse /\ NoColumns

Next ==
    \E e \in EngineIds :
        \/ \E dialect \in {"kql", "base"}, variant \in {"package", "module"} :
             get_engine(e, dialect, variant)
        \/ Connect(e)
        \/ _get_columns(e)
        \/ get_table_names(e)
        \/ has_table(e)

Spec == Init /\ [][Next]_vars

\* Every hook of one dialect object: the state after get_engine built the
\* first engine, then its connections and the invocations of its hooks.
InitHooks ==
    /\ \E dialect \in {"kql", "base"}, variant \in {"package", "module"} :
         engines = [e \in EngineIds |->
                       IF e = 1
                       THEN [created |-> TRUE, dialect |-> dialect, variant |-> variant]
                       ELSE NoEngine]
    /\ listeners = IF engines[1].dialect = "kql" THEN <<1>> ELSE <<>>
    /\ _server = [e \in EngineIds |-> None]
    /\ _database = [e \in EngineIds |-> None]
    /\ _kusto_client = [e \in EngineIds |-> None]
    /\ lastConnect = None
    /\ connections = {}
    /\ lastEvent = [kind |-> "get_engine", engine |-> 1]
    /\ NoToken /\ NoParse /\ NoColumns

NextHooks ==
    \E e \in EngineIds :
        \/ Connect(e)
        \/ get_isolation_level(e)
        \/ get_pk_constraint(e)
        \/ get_foreign_keys(e)
        \/ get_indexes(e)
        \/ get_columns(e)
        \/ _get_columns(e)
        \/ get_table_names(e)
        \/ has_table(e)

SpecHooks == InitHooks /\ [][NextHooks]_vars

\* The token attribute buffer, over every token of the bounds.
CodePoints == {65, 233, 8364, 128512}

InitToken ==
    /\ NoDialects /\ NoParse /\ NoColumns
    /\ token \in SeqsUpTo(CodePoints, MaxTokenLen)
    /\ token_struct = None

EncodeToken ==
    /\ token_struct' = Some([by |-> "_encode_token", attrs |-> _encode_token(token)])
    /\ UNCHANGED <<engines, listeners, _server, _database, _kusto_client, lastConnect,
                   connections, lastEvent, token, conn_args, parsed, rows, cols>>

GetToken ==
    /\ token_struct' = Some([by |-> "get_token", attrs |-> get_token(token)])
    /\ UNCHANGED <<engines, listeners, _server, _database, _kusto_client, lastConnect,
                   connections, lastEvent, token, conn_args, parsed, rows, cols>>

NextToken == EncodeToken \/ GetToken

SpecToken == InitToken /\ [][NextToken]_vars

\* The connection string of get_engine through a provide_token listener and
\* _parse_connection_str, over server and database names put together from
\* the pieces that matter to the three of them.
Chunks ==
    {<<"a">>, <<"%">>, <<"4", "1">>, TRUSTED_CONNECTION, DATABASE_KEY, SERVER_KEY}

ChunkStrings(n) == {Concat(cs) : cs \in SeqsUpTo(Chunks, n)}

InitParse ==
    /\ NoDialects /\ NoToken /\ NoColumns
    /\ conn_args \in ChunkStrings(MaxChunks - 1) \X ChunkStrings(MaxChunks)
    /\ parsed = None

ParseConnection ==
    /\ \E trusted \in BOOLEAN :
         LET cs == conn_str(conn_args[1], conn_args[2])
             cargs0 == IF trusted THEN cs \o TRUSTED_CONNECTION ELSE cs
         IN parsed' = Some([trusted |-> trusted,
                            result |-> _parse_connection_str(
                                           RemoveTrustedConnection(cargs0))])
    /\ UNCHANGED <<engines, listeners, _server, _database, _kusto_client, lastConnect,
                   connections, lastEvent, token, token_struct, conn_args, rows, cols>>

NextParse == ParseConnection

SpecParse == InitParse /\ [][NextParse]_vars

\* Column reflection over every list of rows of the bounds.
InitColumns ==
    /\ NoDialects /\ NoToken /\ NoParse
    /\ rows \in {[path |-> "get_columns", rows |-> r] :
                    r \in SeqsUpTo(IschemaRowSet, MaxRows)}
           \cup {[path |-> "_get_columns", rows |-> r] :
                    r \in SeqsUpTo(KustoRowSet, MaxRows)}
    /\ cols = None

ReflectColumns ==
    /\ rows.path = "get_columns"
    /\ cols' = Some(get_columns_loop(rows.rows))
    /\ UNCHANGED <<engines, listeners, _server, _database, _kusto_client, lastConnect,
                   connections, lastEvent, token, token_struct, conn_args, parsed, rows>>

ReflectKustoColumns ==
    /\ rows.path = "_get_columns"
    /\ cols' = Some(_get_columns_loop(rows.rows))
    /\ UNCHANGED <<engines, listeners, _server, _database, _kusto_client, lastConnect,
                   connections, lastEvent, token, token_struct, conn_args, parsed, rows>>

NextColumns == ReflectColumns \/ ReflectKustoColumns

SpecColumns == InitColumns /\ [][NextColumns]_vars

(***************************************************************************)
(* The token attribute buffer (C4).                                        *)
(***************************************************************************)
\* The number of UTF-16 code units of a string of code points.
RECURSIVE Utf16CodeUnits(_)
Utf16CodeUnits(t) ==
    IF t = <<>> THEN 0
    ELSE (IF Head(t) < 65536 THEN 1 ELSE 2) + Utf16CodeUnits(Tail(t))

\* Four bytes read as a little-endian unsigned integer.
ReadUInt32LE(b) == b[1] + 256 * b[2] + 65536 * b[3] + 16777216 * b[4]

\* Bytes read as UTF-16-LE text.
RECURSIVE ReadUtf16LE(_)
ReadUtf16LE(b) ==
    IF Len(b) < 2 THEN <<>>
    ELSE LET u == b[1] + 256 * b[2]
         IN IF u >= 55296 /\ u < 56320 /\ Len(b) >= 4
            THEN <<65536 + (u - 55296) * 1024 + (b[3] + 256 * b[4] - 56320)>>
                 \o ReadUtf16LE(SubSeq(b, 5, Len(b)))
            ELSE <<u>> \o ReadUtf16LE(SubSeq(b, 3, Len(b)))

\* C4: the attribute buffer built for a token t, by _encode_token and by
\* get_token alike, is a mapping with the single key 1256 whose value is a
\* 4-byte little-endian unsigned integer L followed by exactly L bytes, the
\* UTF-16-LE encoding of t, with L twice the number of UTF-16 code units of t;
\* the value is 4 + L bytes long.
C4_TokenBuffer ==
    token_struct # None =>
        LET attrs == token_struct[1].attrs
        IN /\ DOMAIN attrs = {1256}
           /\ LET v == attrs[1256]
                  L == ReadUInt32LE(SubSeq(v, 1, 4))
              IN /\ Len(v) >= 4
                 /\ \A i \in 1..Len(v) : v[i] \in 0..255
                 /\ Len(v) = 4 + L
                 /\ L = 2 * Utf16CodeUnits(token)
                 /\ ReadUtf16LE(SubSeq(v, 5, Len(v))) = token

\* A token with a character outside the basic plane (a surrogate pair) and
\* another one has been encoded by _encode_token.
C4_Witness ==
    /\ token_struct # None
    /\ token_struct[1].by = "_encode_token"
    /\ Len(token) >= 2
    /\ \E i \in 1..Len(token) : token[i] >= 65536
    /\ \E i \in 1..Len(token) : token[i] < 256

(***************************************************************************)
(* The round trip of the connection descriptor (C9).                       *)
(***************************************************************************)
KUSTO_DOMAIN ==
    <<".", "k", "u", "s", "t", "o", ".", "w", "i", "n", "d", "o", "w", "s", ".", "n",
      "e", "t">>

HasKeys(s) == Contains(s, SERVER_KEY) \/ Contains(s, DATABASE_KEY)

HasEscape(s) == \E i \in 1..Len(s) : IsEscapeAt(s, i)

RoundTrips ==
    parsed[1].result =
        [ok |-> TRUE,
         server |-> HTTPS \o conn_args[1] \o KUSTO_DOMAIN,
         database |-> conn_args[2]]

\* C9 as stated: for every server s and database d that contain neither
\* ";Server=" nor ";Database=", _parse_connection_str applied to get_engine's
\* connection string, after the listener removed ";Trusted_Connection=Yes",
\* returns exactly ("https://<s>.kusto.windows.net", d).
C9_RoundTrip_AsStated ==
    (parsed # None /\ ~HasKeys(conn_args[1]) /\ ~HasKeys(conn_args[2])) => RoundTrips

\* C9 as amended: the same for s and d that, besides, contain neither
\* ";Trusted_Connection=Yes" nor a "%" followed by two hexadecimal digits.
C9_RoundTrip ==
    (/\ parsed # None
     /\ \A i \in 1..2 :
          /\ ~HasKeys(conn_args[i])
          /\ ~Contains(conn_args[i], TRUSTED_CONNECTION)
          /\ ~HasEscape(conn_args[i]))
    => RoundTrips

\* The listener removed ";Trusted_Connection=Yes" from the string of a server
\* and a database within the amended claim, both with a "%" that is no escape.
C9_Witness ==
    /\ parsed # None
    /\ parsed[1].trusted
    /\ \A i \in 1..2 :
          /\ ~HasKeys(conn_args[i])
          /\ ~Contains(conn_args[i], TRUSTED_CONNECTION)
          /\ ~HasEscape(conn_args[i])
          /\ Contains(conn_args[i], <<"%">>)
    /\ RoundTrips

(***************************************************************************)
(* Column reflection (C3, C6, C7, C10).                                    *)
(***************************************************************************)
RowName(row) == IF rows.path = "get_columns" THEN row.column_name ELSE row.AttributeName

\* The relational type name of a row: the information schema's data_type, or
\* the name the engine type is listed under in the type table.
RowTypeName(row) ==
    IF rows.path = "get_columns" THEN row.data_type
    ELSE IF \E i \in 1..Len(type_map) : type_map[i][1] = row.AttributeType
         THEN Some(type_map[CHOOSE i \in 1..Len(type_map) :
                                type_map[i][1] = row.AttributeType][2])
         ELSE None

RowInfo == [i \in 1..Len(rows.rows) |->
               [type |-> RowTypeName(rows.rows[i]), column |-> RowName(rows.rows[i])]]

Unrecognized(info) == ~HasKey(ischema_names, info.type)

C6_OneDescriptorPerRow ==
    cols # None =>
        /\ Len(cols[1].cols) = Len(rows.rows)
        /\ \A i \in 1..Len(rows.rows) :
             /\ cols[1].cols[i].name = RowName(rows.rows[i])
             /\ cols[1].cols[i].nullable = TRUE
             /\ cols[1].cols[i].default = None
             /\ cols[1].cols[i].autoincrement = FALSE

\* get_columns reflected two rows with different names and types.
C6_Witness ==
    /\ cols # None
    /\ rows.path = "get_columns"
    /\ Len(rows.rows) = 2
    /\ rows.rows[1].column_name # rows.rows[2].column_name
    /\ rows.rows[1].data_type # rows.rows[2].data_type
    /\ cols[1].cols[1].name = rows.rows[1].column_name

\* The five entries of the claim and the class ischema_names registers
\* under each relational name.
C7_Table ==
    <<  <<"DateTime", "datetime2", "DATETIME2">>, <<"I32", "int", "INTEGER">>,
        <<"I64", "bigint", "BIGINT">>, <<"StringBuffer", "nvarchar", "NVARCHAR">>,
        <<"R64", "real", "REAL">> >>

\* C7: in _get_columns a row whose engine type is one of DateTime, I32, I64,
\* StringBuffer, R64 gets a type that is an instance of the class registered
\* in ischema_names under datetime2, int, bigint, nvarchar, real; a row of any
\* other engine type takes the unrecognized-type path (warning, null type).
C7_TypeMap ==
    (cols # None /\ rows.path = "_get_columns") =>
        /\ Len(type_map) = 5
        /\ \A i \in 1..Len(rows.rows) :
             LET t == rows.rows[i].AttributeType
             IN IF \E k \in 1..5 : C7_Table[k][1] = t
                THEN LET k == CHOOSE k \in 1..5 : C7_Table[k][1] = t
                     IN /\ cols[1].cols[i].type.cls = C7_Table[k][3]
                        /\ dict_get(ischema_names, Some(C7_Table[k][2]))
                               = Some(C7_Table[k][3])
                ELSE /\ cols[1].cols[i].type = NULLTYPE
                     /\ \E w \in 1..Len(cols[1].warnings) :
                          cols[1].warnings[w].column = rows.rows[i].AttributeName
        /\ Len(cols[1].warnings) =
              Cardinality({i \in 1..Len(rows.rows) :
                              \A k \in 1..5 : C7_Table[k][1] # rows.rows[i].AttributeType})

\* _get_columns reflected a row of a listed engine type and a row whose type
\* is a relational name, not an engine type.
C7_Witness ==
    /\ cols # None
    /\ rows.path = "_get_columns"
    /\ Len(rows.rows) = 2
    /\ rows.rows[1].AttributeType = "I64"
    /\ rows.rows[2].AttributeType = "int"
    /\ cols[1].cols[1].type.cls = "BIGINT"

\* C10: on both paths a column whose relational type is nvarchar gets a type
\* built with length = None and the collation SQL_Latin1_General_CP1_CS_AS,
\* and a column of any other type gets no collation.
C10_NvarcharCollation ==
    cols # None =>
        \A i \in 1..Len(rows.rows) :
            IF RowTypeName(rows.rows[i]) = Some("nvarchar")
            THEN /\ "length" \in cols[1].cols[i].type.keywords
                 /\ cols[1].cols[i].type.length = None
                 /\ cols[1].cols[i].type.collation = Some("SQL_Latin1_General_CP1_CS_AS")
            ELSE cols[1].cols[i].type.collation = None

(***************************************************************************)
(* The do_connect event and the dialect state (C1, C2, C8).                *)
(***************************************************************************)
\* C1: every connect on an engine get_engine returned completes without
\* error, leaves cargs[0] free of ";Trusted_Connection=Yes" and leaves
\* cparams["attrs_before"] the encoded token of the credential get_engine was
\* given, on the first connect and on every later one.
C1_ConnectProvidesToken ==
    lastEvent.kind = "connect" =>
        /\ ~lastEvent.error
        /\ ~Contains(lastEvent.cargs0, TRUSTED_CONNECTION)
        /\ lastEvent.attrs_before = Some(_encode_token(TokenOf(lastEvent.engine)))

\* C2: a connect event of one engine never changes the _server, _database or
\* _kusto_client of the dialect of another engine.
C2_NoSharedState ==
    [][\A e \in EngineIds :
          (lastEvent'.kind = "connect" /\ lastEvent'.engine = e) =>
              \A f \in EngineIds \ {e} :
                  /\ _server'[f] = _server[f]
                  /\ _database'[f] = _database[f]
                  /\ _kusto_client'[f] = _kusto_client[f]]_vars

InSeq(x, sq) == \E i \in 1..Len(sq) : sq[i] = x

KustoHooks == {"_get_columns", "get_table_names", "has_table"}

Requests == lastEvent.switch_db + lastEvent.odbc + lastEvent.kusto

QueryHooks == {"get_columns", "_get_columns", "get_table_names", "has_table"}

====
